---- MODULE Spec2Model ----
(***************************************************************************)
(* A model of mdblog (src/src/lib.rs): the Mdblog blog object, its load    *)
(* and export operations and the watch loop of live-development mode.      *)
(*                                                                         *)
(* Strings that the code inspects (file names, paths) are sequences of     *)
(* tokens: the name ".c.md" is <<".", "c", ".", "md">>, so starts_with     *)
(* and ends_with are computed, not looked up.  A path is a sequence of     *)
(* names (its components).                                                 *)
(***************************************************************************)
EXTENDS Integers, Sequences, FiniteSets, TLC

(***************************************************************************)
(* Bounds of the model.                                                    *)
(***************************************************************************)
MaxFiles == 2      \* files in the posts tree at any time
MaxDate == 2       \* datetimes are 1..MaxDate
MaxTime == 3       \* the monotonic clock runs 0..MaxTime
rebuild_interval == 2   \* settings.rebuild_interval, in ticks of the clock
MaxQueue == 1      \* events waiting in the notification channel
MaxEdits == 1      \* edits of the source tree while the watch loop runs
MaxLoadFiles == 3  \* files in the posts tree when load is called on any tree

(***************************************************************************)
(* Names and paths.                                                        *)
(***************************************************************************)
POSTS == <<"posts">>
MEDIA == <<"media">>
A_MD == <<"a", ".", "md">>
B_MD == <<"b", ".", "md">>
DOT_MD == <<".", "c", ".", "md">>
TILDE_MD == <<"~", "d", ".", "md">>
E_TXT == <<"e", ".", "txt">>
DOT_DIR == <<".", "h">>
F_MD == <<"f", ".", "md">>
SUB_DIR == <<"sub">>
G_MD == <<"g", ".", "md">>

\* The blog root the Mdblog object was created from.
root == << <<"blog">> >>

Last(s) == s[Len(s)]

starts_with(name, tok) == Len(name) >= 1 /\ name[1] = tok

ends_with_md(name) ==
    Len(name) >= 2 /\ name[Len(name) - 1] = "." /\ name[Len(name)] = "md"

\* Candidate files of the posts tree, as paths relative to the root.
QualifyingPaths == { <<POSTS, A_MD>>, <<POSTS, B_MD>> }

SkippedPaths ==
    { <<POSTS, DOT_MD>>, <<POSTS, TILDE_MD>>, <<POSTS, E_TXT>>,
      <<POSTS, DOT_DIR, F_MD>> }

TagNames == {"x", "y"}

TagLists == { <<>>, <<"x">>, <<"y", "x">> }

\* What a file under posts/ holds, as far as parsing it goes.
MalformedFiles ==
    { [kind |-> "file", parse |-> "PostHead"],
      [kind |-> "file", parse |-> "PostNoBody"] }

WellFormedFiles ==
    { [kind |-> "file", parse |-> "ok", datetime |-> d, tags |-> ts, hidden |-> h] :
        d \in 1..MaxDate, ts \in TagLists, h \in BOOLEAN }

Files == WellFormedFiles \cup MalformedFiles

\* An entry whose name ends in .md but is a directory.
DirEntry == [kind |-> "dir"]

(***************************************************************************)
(* The state.                                                              *)
(***************************************************************************)
VARIABLES
    dirs,       \* which of the directories posts/ and media/ exist under the root
    tree,       \* the entries below posts/, in the order a directory walk yields them
    media,      \* the files below media/: name -> content
    posts,      \* Mdblog.posts
    tags,       \* Mdblog.tags
    build,      \* the build directory: path -> content
    good,       \* the build directory as the last export that succeeded left it
    chan,       \* the notification channel (rx)
    now,        \* the monotonic clock read by Instant::now()
    last_run,   \* the watch loop's last_run
    pc,         \* where the main thread is
    step,       \* the step of ExportOrder the export in progress is at (0: none)
    caller,     \* who called the export in progress
    err,        \* the result of the last load or export call
    edits       \* edits of the source tree made so far

vars ==
    <<dirs, tree, media, posts, tags, build, good, chan, now, last_run,
      pc, step, caller, err, edits>>

None == [some |-> FALSE]
Some(v) == [some |-> TRUE, val |-> v]

Ok == [ok |-> TRUE]
Err(kind, path) == [ok |-> FALSE, panic |-> FALSE, kind |-> kind, path |-> path]
Panic(msg) == [ok |-> FALSE, panic |-> TRUE, kind |-> msg, path |-> <<>>]

EmptyMap == <<>>

(***************************************************************************)
(* Post: parsing one file.                                                 *)
(***************************************************************************)
\* Post::new followed by Post::load: a Post, or the header or body error of the file.
PostLoad(path, file) ==
    IF file.parse = "ok"
    THEN [ok |-> TRUE,
          post |-> [path |-> path, datetime |-> file.datetime,
                    tags |-> file.tags, hidden |-> file.hidden]]
    ELSE Err(file.parse, path)

is_hidden(entry) == starts_with(Last(entry.path), ".")

is_markdown_file(entry) ==
    IF entry.file.kind # "file" THEN FALSE
    ELSE LET s == Last(entry.path) IN
         IF starts_with(s, ".") \/ starts_with(s, "~") THEN FALSE
         ELSE IF ends_with_md(s) THEN TRUE
         ELSE FALSE

\* filter_entry(|e| !is_hidden(e)): an entry is yielded when neither it nor a
\* directory above it, below posts/, is hidden.
Yielded(entry) ==
    \A i \in 2..Len(entry.path) : ~starts_with(entry.path[i], ".")

RECURSIVE FilterEntries(_, _)
FilterEntries(s, i) ==
    IF i > Len(s) THEN <<>>
    ELSE IF Yielded(s[i]) THEN <<s[i]>> \o FilterEntries(s, i + 1)
    ELSE FilterEntries(s, i + 1)

\* WalkDir over posts/: the entries the loop of load sees, or the walker's error.
Walk(ds, tr) ==
    IF "posts" \in ds THEN [ok |-> TRUE, entries |-> FilterEntries(tr, 1)]
    ELSE [ok |-> FALSE, entries |-> <<>>]

(***************************************************************************)
(* Mdblog::load.                                                           *)
(***************************************************************************)
\* A comparator that also moves p2 ahead of a p1 of the same datetime.
KeepsOrder_Strict(p1, p2) == p2.datetime < p1.datetime

\* p2.datetime().cmp(&p1.datetime()) is Less or Equal: p1 stays before p2.
KeepsOrder(p1, p2) == p2.datetime <= p1.datetime

\* One insertion of a stable sort: x goes behind every element it does not precede.
RECURSIVE InsertSorted(_, _)
InsertSorted(s, x) ==
    IF s = <<>> THEN <<x>>
    ELSE IF KeepsOrder(Last(s), x) THEN Append(s, x)
    ELSE Append(InsertSorted(SubSeq(s, 1, Len(s) - 1), x), Last(s))

RECURSIVE SortFrom(_, _, _)
SortFrom(s, i, acc) ==
    IF i > Len(s) THEN acc ELSE SortFrom(s, i + 1, InsertSorted(acc, s[i]))

\* sort_by(|p1, p2| p2.datetime().cmp(&p1.datetime())): stable, newest first.
sort_by(s) == SortFrom(s, 1, <<>>)

\* An insert that replaces the tag's posts by the pushed one.
TagPush_Replace(tg, tag, post) ==
    [t \in DOMAIN tg \cup {tag} |-> IF t = tag THEN <<post>> ELSE tg[t]]

\* tags.entry(tag).or_insert(Vec::new()).push(post)
TagPush(tg, tag, post) ==
    [t \in DOMAIN tg \cup {tag} |->
        IF t = tag
        THEN (IF tag \in DOMAIN tg THEN Append(tg[tag], post) ELSE <<post>>)
        ELSE tg[t]]

RECURSIVE PushTags(_, _, _)
PushTags(tg, post, i) ==
    IF i > Len(post.tags) THEN tg
    ELSE PushTags(TagPush(tg, post.tags[i], post), post, i + 1)

\* The tags of one pushed post: hidden posts are left out of the index.
IndexPost(tg, post) == IF ~post.hidden THEN PushTags(tg, post, 1) ELSE tg

\* What load assigns to self.posts and self.tags once the loop is done.
Finish(ps, tg) ==
    [ok |-> TRUE, posts |-> sort_by(ps), tags |-> [t \in DOMAIN tg |-> sort_by(tg[t])]]

\* A best-effort loop: a file that fails to parse is skipped.
RECURSIVE LoadLoop_BestEffort(_, _, _, _)
LoadLoop_BestEffort(entries, i, ps, tg) ==
    IF i > Len(entries) THEN Finish(ps, tg)
    ELSE IF ~is_markdown_file(entries[i]) THEN LoadLoop_BestEffort(entries, i + 1, ps, tg)
    ELSE LET r == PostLoad(entries[i].path, entries[i].file) IN
         IF ~r.ok THEN LoadLoop_BestEffort(entries, i + 1, ps, tg)
         ELSE LoadLoop_BestEffort(entries, i + 1, Append(ps, r.post), IndexPost(tg, r.post))

RECURSIVE LoadLoop(_, _, _, _)
LoadLoop(entries, i, ps, tg) ==
    IF i > Len(entries) THEN Finish(ps, tg)
    ELSE IF ~is_markdown_file(entries[i]) THEN LoadLoop(entries, i + 1, ps, tg)
    ELSE LET r == PostLoad(entries[i].path, entries[i].file) IN
         IF ~r.ok THEN r
         ELSE LoadLoop(entries, i + 1, Append(ps, r.post), IndexPost(tg, r.post))

\* The result of load on a source tree: the new posts and tags, an error, or a panic.
LoadResult(ds, tr) ==
    LET w == Walk(ds, tr) IN
    IF ~w.ok THEN Panic("get walker entry error")
    ELSE LoadLoop(w.entries, 1, <<>>, EmptyMap)

(***************************************************************************)
(* The build directory and the pages written to it.                       *)
(***************************************************************************)
\* get_build_dir with the default, relative settings.build_dir.
build_dir == root \o << <<"_build">> >>

INDEX_HTML == << <<"index", ".", "html">> >>
STATIC_FILE == << <<"static">>, <<"main", ".", "css">> >>
LOGO_PNG == <<"logo", ".", "png">>

MediaNames == { LOGO_PNG }
MediaVersions == {"v1"}

\* Post::dest: the post's path with its extension replaced by html.
Dest(path) ==
    SubSeq(path, 1, Len(path) - 1)
        \o << SubSeq(Last(path), 1, Len(Last(path)) - 1) \o <<"html">> >>

\* format!("blog/tags/{}.html", tag)
TagDest(tag) == << <<"blog">>, <<"tags">>, <<tag, ".", "html">> >>

\* media_dest: the path below media/, below the build directory.
media_dest(name) == <<name>>

\* The keys of a BTreeMap come in order, and all_tags is sorted by lowercase name.
TagOrder == <<"x", "y">>

tag_map(name, ps) == [name |-> name, num |-> Len(ps), url |-> TagDest(name)]

RECURSIVE TagMapsFrom(_, _)
TagMapsFrom(tg, i) ==
    IF i > Len(TagOrder) THEN <<>>
    ELSE IF TagOrder[i] \in DOMAIN tg
         THEN <<tag_map(TagOrder[i], tg[TagOrder[i]])>> \o TagMapsFrom(tg, i + 1)
         ELSE TagMapsFrom(tg, i + 1)

\* The all_tags list every page gets.
get_base_context(tg) == TagMapsFrom(tg, 1)

\* The keys of self.tags in iteration order.
RECURSIVE KeysFrom(_, _)
KeysFrom(tg, i) ==
    IF i > Len(TagOrder) THEN <<>>
    ELSE IF TagOrder[i] \in DOMAIN tg THEN <<TagOrder[i]>> \o KeysFrom(tg, i + 1)
    ELSE KeysFrom(tg, i + 1)

\* Post::map: what a listing shows of a post.
PostMap(post) == [url |-> Dest(post.path), datetime |-> post.datetime]

RECURSIVE MapsFrom(_, _)
MapsFrom(ps, i) ==
    IF i > Len(ps) THEN <<>>
    ELSE IF ~ps[i].hidden THEN <<PostMap(ps[i])>> \o MapsFrom(ps, i + 1)
    ELSE MapsFrom(ps, i + 1)

\* A listing without the filter on hidden posts.
get_posts_maps_All(ps) == [i \in 1..Len(ps) |-> PostMap(ps[i])]

\* The listing of a sequence of posts: the hidden ones are filtered out.
get_posts_maps(ps) == MapsFrom(ps, 1)

\* A render_post that looks up the tags of a hidden post too.
TagsResolve_HiddenToo(tg, post) == \A i \in 1..Len(post.tags) : post.tags[i] \in DOMAIN tg

\* Whether every tag lookup of render_post finds its tag.
TagsResolve(tg, post) ==
    post.hidden \/ \A i \in 1..Len(post.tags) : post.tags[i] \in DOMAIN tg

RECURSIVE PostTagsFrom(_, _, _)
PostTagsFrom(tg, post, i) ==
    IF i > Len(post.tags) THEN <<>>
    ELSE <<tag_map(post.tags[i], tg[post.tags[i]])>> \o PostTagsFrom(tg, post, i + 1)

\* The context render_post hands to post.tpl.
render_post(tg, post) ==
    [tpl |-> "post.tpl",
     path |-> post.path,
     datetime |-> IF ~post.hidden THEN Some(post.datetime) ELSE None,
     post_tags |-> IF ~post.hidden THEN PostTagsFrom(tg, post, 1) ELSE <<>>,
     all_tags |-> get_base_context(tg)]

render_index(ps, tg) ==
    [tpl |-> "index.tpl", posts |-> get_posts_maps(ps), all_tags |-> get_base_context(tg)]

render_tag(tg, tag) ==
    [tpl |-> "tag.tpl", name |-> tag, posts |-> get_posts_maps(tg[tag]),
     all_tags |-> get_base_context(tg)]

\* What create_file leaves at a path before anything is written to it.
EmptyFile == [tpl |-> "", empty |-> TRUE]

StaticAsset == [tpl |-> "", asset |-> "theme"]

MediaCopy(v) == [tpl |-> "", copy |-> v]

\* A write that opens an existing file to append to it.
WriteFile_Append(b, path, content) ==
    [p \in DOMAIN b \cup {path} |->
        IF p # path THEN b[p]
        ELSE IF path \in DOMAIN b
             THEN [tpl |-> content.tpl, appended |-> <<b[path], content>>]
             ELSE content]

\* A file of the build directory created or overwritten.
WriteFile(b, path, content) ==
    [p \in DOMAIN b \cup {path} |-> IF p = path THEN content ELSE b[p]]

\* How a failing write leaves its file: not touched, or created and left empty.
FailOutcomes == {"untouched", "truncated"}

NoFail == [at |-> 0, outcome |-> "none"]

\* Where a step of n writes may fail: not at all, or at its k-th write.
FailChoices(n) == {NoFail} \cup [at : 1..n, outcome : FailOutcomes]

\* A step that, when a write fails, clears the build directory.
RECURSIVE ApplyWrites_CleanOnFail(_, _, _, _)
ApplyWrites_CleanOnFail(b, writes, i, fail) ==
    IF i > Len(writes) THEN [ok |-> TRUE, build |-> b]
    ELSE IF fail.at = i
    THEN [ok |-> FALSE, panic |-> FALSE, kind |-> "Io", path |-> <<>>, build |-> <<>>]
    ELSE ApplyWrites_CleanOnFail(WriteFile(b, writes[i].path, writes[i].content),
                                 writes, i + 1, fail)

\* The writes of a step done in order up to a failing one, if any.
RECURSIVE ApplyWrites(_, _, _, _)
ApplyWrites(b, writes, i, fail) ==
    IF i > Len(writes) THEN [ok |-> TRUE, build |-> b]
    ELSE IF fail.at = i
    THEN [ok |-> FALSE, panic |-> FALSE, kind |-> "Io", path |-> <<>>,
          build |-> IF fail.outcome = "truncated"
                    THEN WriteFile(b, writes[i].path, EmptyFile) ELSE b]
    ELSE ApplyWrites(WriteFile(b, writes[i].path, writes[i].content), writes, i + 1, fail)

\* The media files in the order the walk of media/ yields them.
MediaOrder == << LOGO_PNG >>

RECURSIVE MediaWritesFrom(_, _)
MediaWritesFrom(md, i) ==
    IF i > Len(MediaOrder) THEN <<>>
    ELSE IF MediaOrder[i] \in DOMAIN md /\ ~starts_with(MediaOrder[i], ".")
         THEN <<[path |-> media_dest(MediaOrder[i]), content |-> MediaCopy(md[MediaOrder[i]])]>>
              \o MediaWritesFrom(md, i + 1)
         ELSE MediaWritesFrom(md, i + 1)

MediaWrites(md) == MediaWritesFrom(md, 1)

StaticWrites == << [path |-> STATIC_FILE, content |-> StaticAsset] >>

PostWrites(ps, tg) ==
    [i \in 1..Len(ps) |-> [path |-> Dest(ps[i].path), content |-> render_post(tg, ps[i])]]

IndexWrites(ps, tg) == << [path |-> INDEX_HTML, content |-> render_index(ps, tg)] >>

\* An export_tags that returns after the first tag.
TagWrites_FirstOnly(tg) ==
    LET keys == KeysFrom(tg, 1) IN
    [i \in 1..(IF keys = <<>> THEN 0 ELSE 1) |->
        [path |-> TagDest(keys[i]), content |-> render_tag(tg, keys[i])]]

TagWrites(tg) ==
    LET keys == KeysFrom(tg, 1) IN
    [i \in 1..Len(keys) |-> [path |-> TagDest(keys[i]), content |-> render_tag(tg, keys[i])]]

\* export_media: the walk of media/ panics when the directory is missing.
export_media(ds, md, b, fail) ==
    IF "media" \notin ds
    THEN [ok |-> FALSE, panic |-> TRUE, kind |-> "get walker entry error",
          path |-> <<MEDIA>>, build |-> b]
    ELSE ApplyWrites(b, MediaWrites(md), 1, fail)

export_static(b, fail) == ApplyWrites(b, StaticWrites, 1, fail)

\* The first post whose rendering would look up a tag that self.tags lacks (0: none).
RECURSIVE FirstUnresolved(_, _, _)
FirstUnresolved(ps, tg, i) ==
    IF i > Len(ps) THEN 0
    ELSE IF ~TagsResolve(tg, ps[i]) THEN i
    ELSE FirstUnresolved(ps, tg, i + 1)

\* export_posts: render_post panics on a tag that is not in self.tags, the post's
\* file already created.
export_posts(ps, tg, b, fail) ==
    LET u == FirstUnresolved(ps, tg, 1) IN
    IF u # 0 /\ (fail.at = 0 \/ u < fail.at \/ (u = fail.at /\ fail.outcome = "truncated"))
    THEN [ok |-> FALSE, panic |-> TRUE, kind |-> "post tag does not add to blog tags",
          path |-> ps[u].path,
          build |-> ApplyWrites(b, [i \in 1..u |->
                        [path |-> Dest(ps[i].path),
                         content |-> IF i < u THEN render_post(tg, ps[i]) ELSE EmptyFile]],
                        1, NoFail).build]
    ELSE ApplyWrites(b, PostWrites(ps, tg), 1, fail)

export_index(ps, tg, b, fail) == ApplyWrites(b, IndexWrites(ps, tg), 1, fail)

\* An export_tags that first removes the pages of the tags that are gone.
export_tags_Prune(tg, b, fail) ==
    ApplyWrites([p \in { q \in DOMAIN b : q \notin { TagDest(t) : t \in TagNames \ DOMAIN tg } }
                    |-> b[p]],
                TagWrites(tg), 1, fail)

export_tags(tg, b, fail) == ApplyWrites(b, TagWrites(tg), 1, fail)

\* An export that writes the posts before the static assets.
ExportOrder_PostsFirst == <<"media", "posts", "static", "index", "tags">>

\* The order in which export runs its steps.
ExportOrder == <<"media", "static", "posts", "index", "tags">>

\* How many files a step writes when nothing fails.
StepWrites(name) ==
    CASE name = "media" -> Len(MediaWrites(media))
      [] name = "static" -> Len(StaticWrites)
      [] name = "posts" -> Len(posts)
      [] name = "index" -> 1
      [] name = "tags" -> Len(KeysFrom(tags, 1))

StepResult(name, fail) ==
    CASE name = "media" -> export_media(dirs, media, build, fail)
      [] name = "static" -> export_static(build, fail)
      [] name = "posts" -> export_posts(posts, tags, build, fail)
      [] name = "index" -> export_index(posts, tags, build, fail)
      [] name = "tags" -> export_tags(tags, build, fail)

(***************************************************************************)
(* The ignore patterns of the watch loop.                                  *)
(***************************************************************************)
\* vec![Pattern::new("**/.*"), Pattern::new("{build_dir}/**/*")]
get_ignore_patterns ==
    << [glob |-> "**/.*"], [glob |-> "dir/**/*", dir |-> build_dir] >>

\* Pattern::matches_path.  "**/.*" matches a path one of whose components starts
\* with a dot (the * after the dot runs over separators); "dir/**/*" matches the
\* paths strictly below dir.
matches_path(pat, path) ==
    IF pat.glob = "**/.*"
    THEN \E i \in 1..Len(path) : starts_with(path[i], ".")
    ELSE Len(path) > Len(pat.dir) /\ SubSeq(path, 1, Len(pat.dir)) = pat.dir

Ignored(path) ==
    \E i \in 1..Len(get_ignore_patterns) : matches_path(get_ignore_patterns[i], path)

\* The kinds of DebouncedEvent the loop acts on.
RebuildKinds == {"Create", "Write", "Remove", "Rename"}

VISIBLE_PATH == root \o <<POSTS, A_MD>>
DOTFILE_PATH == root \o <<POSTS, DOT_MD>>
BUILT_PATH == build_dir \o INDEX_HTML

Event(kind, path) == [kind |-> kind, path |-> path, to |-> <<>>]
Rename(path, to) == [kind |-> "Rename", path |-> path, to |-> to]

\* The events the notification source may deliver.
Events ==
    { Event(k, VISIBLE_PATH) : k \in {"Write", "Remove", "Chmod"} }
    \cup { Event("Write", DOTFILE_PATH), Event("Write", BUILT_PATH),
           Rename(VISIBLE_PATH, BUILT_PATH), Rename(VISIBLE_PATH, DOTFILE_PATH),
           Rename(DOTFILE_PATH, VISIBLE_PATH), Rename(BUILT_PATH, VISIBLE_PATH) }

(***************************************************************************)
(* The source tree, edited from outside the program.                       *)
(***************************************************************************)
Entry(path, file) == [path |-> path, file |-> file]

PathsOf(tr) == { tr[i].path : i \in 1..Len(tr) }

IndexOf(tr, path) == CHOOSE i \in 1..Len(tr) : tr[i].path = path

InsertAt(s, i, x) == SubSeq(s, 1, i - 1) \o <<x>> \o SubSeq(s, i, Len(s))

RemoveAt(s, i) == SubSeq(s, 1, i - 1) \o SubSeq(s, i + 1, Len(s))

\* A file created (at any place of the directory order) or overwritten in place.
WritePost(path, file, max) ==
    /\ "posts" \in dirs
    /\ IF path \in PathsOf(tree)
       THEN tree' = [tree EXCEPT ![IndexOf(tree, path)] = Entry(path, file)]
       ELSE /\ Len(tree) < max
            /\ \E i \in 1..(Len(tree) + 1) : tree' = InsertAt(tree, i, Entry(path, file))
    /\ UNCHANGED <<dirs, media>>

RemovePost(path) ==
    /\ path \in PathsOf(tree)
    /\ tree' = RemoveAt(tree, IndexOf(tree, path))
    /\ UNCHANGED <<dirs, media>>

RenamePost(path, to) ==
    /\ path \in PathsOf(tree)
    /\ to \notin PathsOf(tree)
    /\ LET i == IndexOf(tree, path)
           rest == RemoveAt(tree, i)
       IN \E j \in 1..(Len(rest) + 1) :
              tree' = InsertAt(rest, j, Entry(to, tree[i].file))
    /\ UNCHANGED <<dirs, media>>

\* posts/ or media/ removed or moved away with all it holds.
RemoveDir(d) ==
    /\ d \in dirs
    /\ dirs' = dirs \ {d}
    /\ tree' = IF d = "posts" THEN <<>> ELSE tree
    /\ media' = IF d = "media" THEN EmptyMap ELSE media

CreateDir(d) ==
    /\ d \notin dirs
    /\ dirs' = dirs \cup {d}
    /\ UNCHANGED <<tree, media>>

WriteMedia(name, v) ==
    /\ "media" \in dirs
    /\ media' = [n \in DOMAIN media \cup {name} |-> IF n = name THEN v ELSE media[n]]
    /\ UNCHANGED <<dirs, tree>>

RemoveMedia(name) ==
    /\ name \in DOMAIN media
    /\ media' = [n \in DOMAIN media \ {name} |-> media[n]]
    /\ UNCHANGED <<dirs, tree>>

program == <<posts, tags, build, good, chan, now, last_run, pc, step, caller, err>>

(***************************************************************************)
(* The operations of Mdblog, called from the command line (pc = "main").   *)
(***************************************************************************)
ErrOf(r) == [ok |-> FALSE, panic |-> r.panic, kind |-> r.kind, path |-> r.path]

\* A load that pushes onto self.posts instead of a new vector.
ApiLoad_Accumulate ==
    /\ pc = "main"
    /\ LET r == LoadResult(dirs, tree) IN
       IF r.ok
       THEN /\ posts' = sort_by(posts \o r.posts)
            /\ tags' = r.tags
            /\ err' = Ok
            /\ pc' = "main"
       ELSE /\ UNCHANGED <<posts, tags>>
            /\ err' = ErrOf(r)
            /\ pc' = IF r.panic THEN "panicked" ELSE "main"
    /\ UNCHANGED <<dirs, tree, media, build, good, chan, now, last_run, step, caller,
                   edits>>

\* A load that assigns self.posts and leaves self.tags as it was.
ApiLoad_PostsOnly ==
    /\ pc = "main"
    /\ LET r == LoadResult(dirs, tree) IN
       IF r.ok
       THEN /\ posts' = r.posts
            /\ err' = Ok
            /\ pc' = "main"
            /\ UNCHANGED tags
       ELSE /\ UNCHANGED <<posts, tags>>
            /\ err' = ErrOf(r)
            /\ pc' = IF r.panic THEN "panicked" ELSE "main"
    /\ UNCHANGED <<dirs, tree, media, build, good, chan, now, last_run, step, caller,
                   edits>>

\* load(): self.posts and self.tags are assigned together, after the loop.
ApiLoad ==
    /\ pc = "main"
    /\ LET r == LoadResult(dirs, tree) IN
       IF r.ok
       THEN /\ posts' = r.posts
            /\ tags' = r.tags
            /\ err' = Ok
            /\ pc' = "main"
       ELSE /\ UNCHANGED <<posts, tags>>
            /\ err' = ErrOf(r)
            /\ pc' = IF r.panic THEN "panicked" ELSE "main"
    /\ UNCHANGED <<dirs, tree, media, build, good, chan, now, last_run, step, caller,
                   edits>>

\* export() (or build()) entered.
ApiExport ==
    /\ pc = "main"
    /\ pc' = "export"
    /\ step' = 1
    /\ caller' = "main"
    /\ UNCHANGED <<dirs, tree, media, posts, tags, build, good, chan, now, last_run,
                   err, edits>>

\* Where an export called by who returns to.
ReturnTo(who) == IF who = "watch" THEN "recv" ELSE "main"

\* An export that drops the Result of a step and goes on as if it were Ok.
StepDone_Swallow(r) ==
    /\ build' = r.build
    /\ IF r.ok \/ ~r.panic
       THEN IF step = Len(ExportOrder)
            THEN /\ pc' = ReturnTo(caller)
                 /\ step' = 0
                 /\ err' = Ok
                 /\ good' = r.build
            ELSE /\ pc' = "export"
                 /\ step' = step + 1
                 /\ UNCHANGED <<err, good>>
       ELSE /\ pc' = "panicked"
            /\ step' = 0
            /\ err' = ErrOf(r)
            /\ UNCHANGED good
    /\ UNCHANGED <<dirs, tree, media, posts, tags, chan, now, last_run, caller,
                   edits>>

\* What a finished step of export leads to: the next step, the return of export to
\* its caller with Ok or with the step's error, or a panic.
StepDone(r) ==
    /\ build' = r.build
    /\ IF r.ok
       THEN IF step = Len(ExportOrder)
            THEN /\ pc' = ReturnTo(caller)
                 /\ step' = 0
                 /\ err' = Ok
                 /\ good' = r.build
            ELSE /\ pc' = "export"
                 /\ step' = step + 1
                 /\ UNCHANGED <<err, good>>
       ELSE /\ pc' = IF r.panic THEN "panicked" ELSE ReturnTo(caller)
            /\ step' = 0
            /\ err' = ErrOf(r)
            /\ UNCHANGED good
    /\ UNCHANGED <<dirs, tree, media, posts, tags, chan, now, last_run, caller,
                   edits>>

ExportStep(name) ==
    /\ pc = "export"
    /\ ExportOrder[step] = name
    /\ \E fail \in FailChoices(StepWrites(name)) : StepDone(StepResult(name, fail))

ExportMedia == ExportStep("media")
ExportStatic == ExportStep("static")
ExportPosts == ExportStep("posts")
ExportIndex == ExportStep("index")
ExportTags == ExportStep("tags")

\* One of export_media, export_static, export_posts, export_index and export_tags
\* called on its own.
ApiSub(name) ==
    /\ pc = "main"
    /\ \E fail \in FailChoices(StepWrites(name)) :
          LET r == StepResult(name, fail) IN
          /\ build' = r.build
          /\ err' = IF r.ok THEN Ok ELSE ErrOf(r)
          /\ pc' = IF r.ok THEN "main" ELSE IF r.panic THEN "panicked" ELSE "main"
    /\ UNCHANGED <<dirs, tree, media, posts, tags, good, chan, now, last_run, step,
                   caller, edits>>

ApiExportMedia == ApiSub("media")
ApiExportStatic == ApiSub("static")
ApiExportPosts == ApiSub("posts")
ApiExportIndex == ApiSub("index")
ApiExportTags == ApiSub("tags")

(***************************************************************************)
(* serve() and the watch loop.                                             *)
(***************************************************************************)
\* serve() reaches the loop of watch(): the channel is new, last_run is None.
Serve ==
    /\ pc = "main"
    /\ pc' = "recv"
    /\ chan' = <<>>
    /\ last_run' = None
    /\ caller' = "watch"
    /\ UNCHANGED <<dirs, tree, media, posts, tags, build, good, now, step, err, edits>>

\* serve() or watch() fails before the loop: the error goes back to the caller.
ServeFails ==
    /\ pc = "main"
    /\ err' = Err("Startup", <<>>)
    /\ UNCHANGED <<dirs, tree, media, posts, tags, build, good, chan, now, last_run,
                   pc, step, caller, edits>>

\* Duration::new(self.settings.rebuild_interval as u64, 0)
interval == rebuild_interval

\* A throttle whose comparison is off by one tick.
Throttled_OffByOne(last, t, iv) == last.some /\ t - last.val < iv - 1

\* Whether the throttle drops an event handled at time t.
Throttled(last, t, iv) == last.some /\ t - last.val < iv

\* A loop that takes the next event while a rebuild is still running.
Recv_Concurrent ==
    /\ pc \in {"recv", "load", "export"}
    /\ chan # <<>>
    /\ chan' = Tail(chan)
    /\ LET event == Head(chan) IN
       IF event.kind \in RebuildKinds
          /\ ~Ignored(event.path)
          /\ ~Throttled(last_run, now, interval)
       THEN /\ last_run' = Some(now)
            /\ pc' = "load"
       ELSE UNCHANGED <<last_run, pc>>
    /\ UNCHANGED <<dirs, tree, media, posts, tags, build, good, now, step, caller, err,
                   edits>>

\* A loop whose throttle lacks the continue: the event it should drop rebuilds.
Recv_ThrottleFallsThrough ==
    /\ pc = "recv"
    /\ chan # <<>>
    /\ chan' = Tail(chan)
    /\ LET event == Head(chan) IN
       IF event.kind \in RebuildKinds /\ ~Ignored(event.path)
       THEN /\ last_run' = IF Throttled(last_run, now, interval) THEN last_run ELSE Some(now)
            /\ pc' = "load"
       ELSE UNCHANGED <<last_run, pc>>
    /\ UNCHANGED <<dirs, tree, media, posts, tags, build, good, now, step, caller, err,
                   edits>>

\* A loop that matches the ignore patterns against the new path of a rename.
Recv_FilterNewPath ==
    /\ pc = "recv"
    /\ chan # <<>>
    /\ chan' = Tail(chan)
    /\ LET event == Head(chan) IN
       IF event.kind \in RebuildKinds
          /\ ~Ignored(IF event.kind = "Rename" THEN event.to ELSE event.path)
          /\ ~Throttled(last_run, now, interval)
       THEN /\ last_run' = Some(now)
            /\ pc' = "load"
       ELSE UNCHANGED <<last_run, pc>>
    /\ UNCHANGED <<dirs, tree, media, posts, tags, build, good, now, step, caller, err,
                   edits>>

\* A loop that stamps last_run before it looks at the ignore patterns.
Recv_StampFirst ==
    /\ pc = "recv"
    /\ chan # <<>>
    /\ chan' = Tail(chan)
    /\ LET event == Head(chan) IN
       IF event.kind \in RebuildKinds /\ ~Throttled(last_run, now, interval)
       THEN /\ last_run' = Some(now)
            /\ pc' = IF Ignored(event.path) THEN "recv" ELSE "load"
       ELSE UNCHANGED <<last_run, pc>>
    /\ UNCHANGED <<dirs, tree, media, posts, tags, build, good, now, step, caller, err,
                   edits>>

\* One turn of the loop on a received event: ignored, throttled, or accepted, which
\* sets last_run and goes on to load.
Recv ==
    /\ pc = "recv"
    /\ chan # <<>>
    /\ chan' = Tail(chan)
    /\ LET event == Head(chan) IN
       IF event.kind \in RebuildKinds
          /\ ~Ignored(event.path)
          /\ ~Throttled(last_run, now, interval)
       THEN /\ last_run' = Some(now)
            /\ pc' = "load"
       ELSE UNCHANGED <<last_run, pc>>
    /\ UNCHANGED <<dirs, tree, media, posts, tags, build, good, now, step, caller, err,
                   edits>>

\* rx.recv() returns Err (no sender is left and nothing is buffered): the error is
\* logged and the loop turns to the next recv.
RecvError ==
    /\ pc = "recv"
    /\ chan = <<>>
    /\ UNCHANGED vars

\* A loop that forgets last_run when the load fails, so that the next event retries.
WatchLoad_ResetOnFail ==
    /\ pc = "load"
    /\ LET r == LoadResult(dirs, tree) IN
       IF r.ok
       THEN /\ posts' = r.posts
            /\ tags' = r.tags
            /\ pc' = "export"
            /\ step' = 1
            /\ UNCHANGED <<err, last_run>>
       ELSE /\ UNCHANGED <<posts, tags, step>>
            /\ err' = ErrOf(r)
            /\ last_run' = None
            /\ pc' = IF r.panic THEN "panicked" ELSE "recv"
    /\ UNCHANGED <<dirs, tree, media, build, good, chan, now, caller, edits>>

\* The load of a rebuild: an error is logged and the loop goes on; on success the
\* build follows.
WatchLoad ==
    /\ pc = "load"
    /\ LET r == LoadResult(dirs, tree) IN
       IF r.ok
       THEN /\ posts' = r.posts
            /\ tags' = r.tags
            /\ pc' = "export"
            /\ step' = 1
            /\ UNCHANGED err
       ELSE /\ UNCHANGED <<posts, tags, step>>
            /\ err' = ErrOf(r)
            /\ pc' = IF r.panic THEN "panicked" ELSE "recv"
    /\ UNCHANGED <<dirs, tree, media, build, good, chan, now, last_run, caller, edits>>

(***************************************************************************)
(* The environment: the clock and the notification source.                 *)
(***************************************************************************)
Tick ==
    /\ now < MaxTime
    /\ now' = now + 1
    /\ UNCHANGED <<dirs, tree, media, posts, tags, build, good, chan, last_run, pc,
                   step, caller, err, edits>>

Notify(event) ==
    /\ pc \in {"recv", "load", "export"}
    /\ caller = "watch"
    /\ Len(chan) < MaxQueue
    /\ chan' = Append(chan, event)
    /\ UNCHANGED <<dirs, tree, media, posts, tags, build, good, now, last_run, pc,
                   step, caller, err, edits>>

(***************************************************************************)
(* The blog in live-development mode, on a small source tree.              *)
(***************************************************************************)
OLD_POST == [kind |-> "file", parse |-> "ok", datetime |-> 1, tags |-> <<"x">>,
             hidden |-> FALSE]
NEW_POST == [kind |-> "file", parse |-> "ok", datetime |-> MaxDate, tags |-> <<"y", "x">>,
             hidden |-> FALSE]
HIDDEN_POST == [kind |-> "file", parse |-> "ok", datetime |-> 1, tags |-> <<"x">>,
                hidden |-> TRUE]
BAD_POST == [kind |-> "file", parse |-> "PostHead"]
NOBODY_POST == [kind |-> "file", parse |-> "PostNoBody"]

WatchFiles == {OLD_POST, NEW_POST, HIDDEN_POST, BAD_POST, NOBODY_POST}

InitTrees ==
    { <<>>,
      <<Entry(<<POSTS, A_MD>>, OLD_POST), Entry(<<POSTS, B_MD>>, NEW_POST)>>,
      <<Entry(<<POSTS, B_MD>>, HIDDEN_POST), Entry(<<POSTS, A_MD>>, OLD_POST)>> }

Init ==
    /\ dirs = {"posts", "media"}
    /\ tree \in InitTrees
    /\ media = EmptyMap
    /\ posts = <<>>
    /\ tags = EmptyMap
    /\ build = EmptyMap
    /\ good = EmptyMap
    /\ chan = <<>>
    /\ now = 0
    /\ last_run = None
    /\ pc = "main"
    /\ step = 0
    /\ caller = "main"
    /\ err = Ok
    /\ edits = 0

\* An edit of the source tree, counted.
Edit ==
    /\ edits < MaxEdits
    /\ edits' = edits + 1
    /\ \/ \E path \in QualifyingPaths, file \in WatchFiles : WritePost(path, file, MaxFiles)
       \/ \E path \in QualifyingPaths : RemovePost(path)
       \/ \E path \in QualifyingPaths, to \in QualifyingPaths : RenamePost(path, to)
       \/ \E d \in {"posts", "media"} : RemoveDir(d)
       \/ \E d \in {"posts", "media"} : CreateDir(d)
       \/ \E name \in MediaNames, v \in MediaVersions : WriteMedia(name, v)
       \/ \E name \in MediaNames : RemoveMedia(name)
    /\ UNCHANGED program

Next ==
    \/ Edit
    \/ Tick
    \/ \E event \in Events : Notify(event)
    \/ Serve
    \/ ServeFails
    \/ Recv
    \/ RecvError
    \/ WatchLoad
    \/ ExportMedia
    \/ ExportStatic
    \/ ExportPosts
    \/ ExportIndex
    \/ ExportTags

Spec == Init /\ [][Next]_vars

(***************************************************************************)
(* The operations called one by one on the small source tree.              *)
(***************************************************************************)
\* export() itself is its five sub-operations called in order, each stopping at
\* its first error: every run of it is a run of the single calls below.
NextApi ==
    \/ Edit
    \/ ApiLoad
    \/ ApiExportMedia
    \/ ApiExportStatic
    \/ ApiExportPosts
    \/ ApiExportIndex
    \/ ApiExportTags

SpecApi == Init /\ [][NextApi]_vars

(***************************************************************************)
(* load() called on any source tree, edited between the calls.             *)
(***************************************************************************)
\* The files load parses: those of QualifyingPaths and one in a directory below posts/.
LoadPaths == QualifyingPaths \cup { <<POSTS, SUB_DIR, G_MD>> }

\* A file a walk skips is never parsed: a malformed one shows that best.
LoadEntries ==
    { Entry(path, file) : path \in LoadPaths, file \in Files \cup {DirEntry} }
    \cup { Entry(path, BAD_POST) : path \in SkippedPaths }

DistinctPaths(tr) == \A i, j \in 1..Len(tr) : tr[i].path = tr[j].path => i = j

\* The trees load starts from: one file short of MaxLoadFiles, which an edit may add.
AllTrees ==
    UNION { { tr \in [1..n -> LoadEntries] : DistinctPaths(tr) } : n \in 0..(MaxLoadFiles - 1) }

InitLoad ==
    /\ \/ dirs = {"posts", "media"} /\ tree \in AllTrees
       \/ dirs = {"media"} /\ tree = <<>>
    /\ media = EmptyMap
    /\ posts = <<>>
    /\ tags = EmptyMap
    /\ build = EmptyMap
    /\ good = EmptyMap
    /\ chan = <<>>
    /\ now = 0
    /\ last_run = None
    /\ pc = "main"
    /\ step = 0
    /\ caller = "main"
    /\ err = Ok
    /\ edits = 0

\* Additions, edits, deletions and renames of files below posts/, and of posts/.
EditLoad ==
    /\ edits < MaxEdits
    /\ edits' = edits + 1
    /\ \/ \E entry \in LoadEntries : WritePost(entry.path, entry.file, MaxLoadFiles)
       \/ \E path \in LoadPaths \cup SkippedPaths : RemovePost(path)
       \/ \E path \in LoadPaths, to \in LoadPaths : RenamePost(path, to)
       \/ RemoveDir("posts")
       \/ CreateDir("posts")
    /\ UNCHANGED program

NextLoad ==
    \/ EditLoad
    \/ ApiLoad

SpecLoad == InitLoad /\ [][NextLoad]_vars

(***************************************************************************)
(* The watch loop with the events its own rebuilds cause.  The watcher is  *)
(* recursive on the root, and the build directory lies below the root: the *)
(* notification source reports what export creates and writes there.       *)
(***************************************************************************)
\* The name under which dirs records that the build directory exists.
BUILD == "_build"

\* The paths a step of export creates or writes, below the build directory, in order.
StepTargets(name) ==
    CASE name = "media" -> [i \in 1..Len(MediaWrites(media)) |-> MediaWrites(media)[i].path]
      [] name = "static" -> [i \in 1..Len(StaticWrites) |-> StaticWrites[i].path]
      [] name = "posts" -> [i \in 1..Len(posts) |-> Dest(posts[i].path)]
      [] name = "index" -> << INDEX_HTML >>
      [] name = "tags" -> [i \in 1..Len(KeysFrom(tags, 1)) |-> TagDest(KeysFrom(tags, 1)[i])]

\* How many of them the step has created or written when it ends: all, those before
\* the failing write, or those up to the file a failing write or a panic of
\* render_post left created.
Touched(name, fail) ==
    LET u == IF name = "posts" THEN FirstUnresolved(posts, tags, 1) ELSE 0 IN
    IF u # 0 /\ (fail.at = 0 \/ u < fail.at \/ (u = fail.at /\ fail.outcome = "truncated"))
    THEN u
    ELSE IF fail.at = 0 THEN StepWrites(name)
    ELSE IF fail.outcome = "truncated" THEN fail.at
    ELSE fail.at - 1

\* export_media walks media/ from its root, which is a directory: create_dir_all of
\* its destination, the build directory itself.
CreatesBuildDir(name, ds) == name = "media" /\ "media" \in ds /\ BUILD \notin ds

\* The events of a step: the build directory if the step created it, then each file,
\* created or written.
OwnEvents(name, fail) ==
    (IF CreatesBuildDir(name, dirs) THEN << Event("Create", build_dir) >> ELSE <<>>)
    \o [i \in 1..(IF name = "media" /\ "media" \notin dirs THEN 0 ELSE Touched(name, fail)) |->
           Event(IF StepTargets(name)[i] \in DOMAIN build THEN "Write" ELSE "Create",
                 build_dir \o StepTargets(name)[i])]

\* A step of the export of a rebuild, watched: as ExportStep, and its events are in
\* the channel when it ends.
WatchedStep(name) ==
    /\ pc = "export"
    /\ caller = "watch"
    /\ ExportOrder[step] = name
    /\ \E fail \in FailChoices(StepWrites(name)) :
          LET r == StepResult(name, fail) IN
          /\ build' = r.build
          /\ dirs' = IF name = "media" /\ "media" \in dirs THEN dirs \cup {BUILD} ELSE dirs
          /\ chan' = chan \o OwnEvents(name, fail)
          /\ IF r.ok
             THEN IF step = Len(ExportOrder)
                  THEN /\ pc' = ReturnTo(caller)
                       /\ step' = 0
                       /\ err' = Ok
                       /\ good' = r.build
                  ELSE /\ pc' = "export"
                       /\ step' = step + 1
                       /\ UNCHANGED <<err, good>>
             ELSE /\ pc' = IF r.panic THEN "panicked" ELSE ReturnTo(caller)
                  /\ step' = 0
                  /\ err' = ErrOf(r)
                  /\ UNCHANGED good
    /\ UNCHANGED <<tree, media, posts, tags, now, last_run, caller, edits>>

WatchedMedia == WatchedStep("media")
WatchedStatic == WatchedStep("static")
WatchedPosts == WatchedStep("posts")
WatchedIndex == WatchedStep("index")
WatchedTags == WatchedStep("tags")

\* A change of the source while the loop waits, with the event the notification
\* source delivers for it: a post written or removed.
SourceChange ==
    /\ pc = "recv"
    /\ caller = "watch"
    /\ edits < MaxEdits
    /\ edits' = edits + 1
    /\ \E path \in QualifyingPaths :
          \/ /\ \E file \in WatchFiles : WritePost(path, file, MaxFiles)
             /\ chan' = Append(chan, Event("Write", root \o path))
          \/ /\ RemovePost(path)
             /\ chan' = Append(chan, Event("Remove", root \o path))
    /\ UNCHANGED <<posts, tags, build, good, now, last_run, pc, step, caller, err>>

\* serve() called on a blog that was never built, or whose build directory is there.
InitSelf ==
    /\ dirs \in { {"posts", "media"}, {"posts", "media", BUILD} }
    /\ tree \in InitTrees
    /\ media \in { EmptyMap, [n \in MediaNames |-> "v1"] }
    /\ posts = <<>>
    /\ tags = EmptyMap
    /\ build = EmptyMap
    /\ good = EmptyMap
    /\ chan = <<>>
    /\ now = 0
    /\ last_run = None
    /\ pc = "main"
    /\ step = 0
    /\ caller = "main"
    /\ err = Ok
    /\ edits = 0

NextSelf ==
    \/ Serve
    \/ SourceChange
    \/ Tick
    \/ Recv
    \/ RecvError
    \/ WatchLoad
    \/ WatchedMedia
    \/ WatchedStatic
    \/ WatchedPosts
    \/ WatchedIndex
    \/ WatchedTags

SpecSelf == InitSelf /\ [][NextSelf]_vars

(***************************************************************************)
(* The watch loop: throttle, ignore filter, recovery.                      *)
(***************************************************************************)
\* A step of the loop that takes an event from the channel.
Receives == pc = "recv" /\ chan # <<>> /\ chan' = Tail(chan)

\* A step that triggers a rebuild.
Triggers == pc = "recv" /\ pc' = "load"

\* C1: a rebuild is triggered only by stamping last_run with the time of the
\* trigger, and never less than rebuild_interval after the trigger before it: the
\* trigger times of two consecutive rebuilds are at least rebuild_interval apart,
\* so of two events within the interval after a trigger the second triggers nothing.
C1_TriggersAreSpaced ==
    [][Triggers =>
          /\ last_run' = Some(now)
          /\ last_run.some => last_run'.val - last_run.val >= rebuild_interval]_vars

\* C1: a second rebuild triggered, after an earlier one wrote the build directory.
C1_SecondTrigger ==
    /\ pc = "load"
    /\ build # EmptyMap
    /\ last_run = Some(now)
    /\ now >= rebuild_interval

\* The four kinds of event the claim names.
C2_Kinds == {"Create", "Write", "Remove", "Rename"}

\* A dotfile, or anything under the build directory.
C2_Matches(path) ==
    \/ \E i \in 1..Len(path) : path[i] # <<>> /\ path[i][1] = "."
    \/ Len(path) > Len(build_dir) /\ \A i \in 1..Len(build_dir) : path[i] = build_dir[i]

\* C2: an event of the four kinds whose path matches an ignore pattern is discarded
\* (no rebuild; last_run, posts, tags and the build directory unchanged); one whose
\* path matches none triggers a rebuild unless the throttle drops it; an event of
\* another kind never triggers a rebuild.
C2_IgnoreFilter ==
    [][Receives =>
          LET event == Head(chan) IN
          /\ (event.kind \in C2_Kinds /\ C2_Matches(event.path))
                => /\ pc' = "recv"
                   /\ UNCHANGED <<last_run, posts, tags, build>>
          /\ (event.kind \in C2_Kinds /\ ~C2_Matches(event.path))
                => IF last_run.some /\ now - last_run.val < rebuild_interval
                   THEN pc' = "recv" /\ UNCHANGED <<last_run, posts, tags, build>>
                   ELSE pc' = "load"
          /\ event.kind \notin C2_Kinds
                => /\ pc' = "recv"
                   /\ UNCHANGED <<last_run, posts, tags, build>>]_vars

\* C2: the loop is about to handle the write of _build/index.html, which an earlier
\* rebuild produced, at a time when the throttle would let an event through.
C2_BuiltFileEvent ==
    /\ pc = "recv"
    /\ chan # <<>>
    /\ Head(chan) = Event("Write", build_dir \o INDEX_HTML)
    /\ INDEX_HTML \in DOMAIN build
    /\ last_run.some
    /\ now - last_run.val >= rebuild_interval

\* C3: no failure of a rebuild ends the watch loop: once serve() has entered the
\* loop, the main thread is receiving, loading or exporting.
C3_LoopSurvivesFailures == caller = "watch" => pc \in {"recv", "load", "export"}

(***************************************************************************)
(* Rebuilds: what a failure leaves, fail-fast load, hidden posts, export.  *)
(***************************************************************************)
\* The files of the build directory that a step creates, removes or changes.
Changed ==
    { p \in DOMAIN build \cup DOMAIN build' :
        \/ p \notin DOMAIN build
        \/ p \notin DOMAIN build'
        \/ build[p] # build'[p] }

\* The five sub-operations of export in the order the claims give them.
C10_Order == <<"media", "static", "posts", "index", "tags">>

\* The files a sub-operation is there to write.
C10_Targets(name) ==
    CASE name = "media" -> { <<n>> : n \in DOMAIN media }
      [] name = "static" -> { STATIC_FILE }
      [] name = "posts" -> { Dest(posts[i].path) : i \in 1..Len(posts) }
      [] name = "index" -> { INDEX_HTML }
      [] name = "tags" -> { TagDest(t) : t \in DOMAIN tags }

\* A step of the main thread that runs one sub-operation of export.
ExportSteps == pc = "export" /\ step' # step

\* A step with which a triggered rebuild fails.
RebuildFails == pc \in {"load", "export"} /\ pc' \notin {"load", "export"} /\ ~err'.ok

C5_Qualifies(e) ==
    /\ e.file.kind = "file"
    /\ \A i \in 2..Len(e.path) : e.path[i][1] # "."
    /\ LET name == e.path[Len(e.path)] IN
       /\ name[1] # "~"
       /\ Len(name) >= 2
       /\ name[Len(name) - 1] = "."
       /\ name[Len(name)] = "md"

C5_Malformed == { i \in 1..Len(tree) : C5_Qualifies(tree[i]) /\ tree[i].file.parse # "ok" }

\* C5: when a qualifying file of the tree is malformed, the load of a rebuild
\* returns the error of the first such file in walk order (its kind and its path),
\* whatever else the tree holds; posts and tags stay as they were, the loop goes
\* back to receiving without exporting, and nothing but a step of export ever
\* changes the build directory.
C5_FailFastLoad ==
    [][/\ (pc = "load" /\ pc' # "load" /\ C5_Malformed # {}) =>
             LET first == CHOOSE i \in C5_Malformed : \A j \in C5_Malformed : i <= j IN
             /\ pc' = "recv"
             /\ step' = 0
             /\ err' = [ok |-> FALSE, panic |-> FALSE,
                        kind |-> tree[first].file.parse, path |-> tree[first].path]
             /\ UNCHANGED <<posts, tags, build>>
       /\ build' # build => pc = "export"]_vars

\* C5: the load of a rebuild has failed on a malformed file that the walk met after
\* a well-formed one, with the output of an earlier build in place.
C5_BadAfterGood ==
    /\ caller = "watch"
    /\ pc = "recv"
    /\ Len(tree) = 2
    /\ tree[1].file.parse = "ok"
    /\ tree[2].file.parse # "ok"
    /\ err = [ok |-> FALSE, panic |-> FALSE,
              kind |-> tree[2].file.parse, path |-> tree[2].path]
    /\ build = good
    /\ INDEX_HTML \in DOMAIN build

\* The sub-operation a step of export runs went through.
C9_Done(name) ==
    /\ ExportSteps
    /\ step \in 1..Len(C10_Order)
    /\ C10_Order[step] = name
    /\ IF step = Len(C10_Order) THEN err'.ok /\ pc' # "export" ELSE pc' = "export"

\* Whether a listing shows none of the hidden posts and each of the others.
C9_ListsVisibleOnly(listing, ps) ==
    /\ \A i \in 1..Len(ps) : ps[i].hidden =>
          \A j \in 1..Len(listing) : listing[j].url # Dest(ps[i].path)
    /\ \A i \in 1..Len(ps) : ~ps[i].hidden =>
          \E j \in 1..Len(listing) : listing[j].url = Dest(ps[i].path)

\* C9: no hidden post is in a sequence of the tag index; the listing export_index
\* writes and the listing of every tag page show no hidden post (and every post
\* that is not hidden); export_posts writes the page of every post of the
\* collection, the hidden ones included.
C9_HiddenPosts ==
    /\ [](\A t \in DOMAIN tags : \A i \in 1..Len(tags[t]) : ~tags[t][i].hidden)
    /\ [][/\ C9_Done("index") =>
                /\ build'[INDEX_HTML].tpl = "index.tpl"
                /\ C9_ListsVisibleOnly(build'[INDEX_HTML].posts, posts)
          /\ C9_Done("tags") =>
                \A t \in DOMAIN tags :
                    /\ build'[TagDest(t)].tpl = "tag.tpl"
                    /\ \A i \in 1..Len(posts) : posts[i].hidden =>
                          \A j \in 1..Len(build'[TagDest(t)].posts) :
                              build'[TagDest(t)].posts[j].url # Dest(posts[i].path)
          /\ C9_Done("posts") =>
                \A i \in 1..Len(posts) :
                    /\ Dest(posts[i].path) \in DOMAIN build'
                    /\ build'[Dest(posts[i].path)].tpl = "post.tpl"
                    /\ build'[Dest(posts[i].path)].path = posts[i].path]_vars

\* C9: a build completed with a hidden post that carries a tag: its page is
\* written, the index lists the one other post, and the tag has a page.
C9_HiddenPageWritten ==
    /\ good = build
    /\ Len(posts) = 2
    /\ \E i \in 1..2 :
          /\ posts[i].hidden
          /\ posts[i].tags # <<>>
          /\ Dest(posts[i].path) \in DOMAIN build
          /\ build[Dest(posts[i].path)].tpl = "post.tpl"
    /\ INDEX_HTML \in DOMAIN build
    /\ build[INDEX_HTML].tpl = "index.tpl"
    /\ Len(build[INDEX_HTML].posts) = 1
    /\ DOMAIN tags # {}

\* C10: export starts with media and runs media, static, posts, index, tags in
\* that order, each once: a step changes no file but the targets of its
\* sub-operation and removes none; after a step that went through comes the next
\* one, and export returns Ok only after the last; a step that fails ends export
\* with its error, no later step running, and the files written before stay.
C10_ExportOrder ==
    [][/\ (pc # "export" /\ pc' = "export") => step' = 1
       /\ ExportSteps =>
             /\ step \in 1..Len(C10_Order)
             /\ Changed \subseteq C10_Targets(C10_Order[step])
             /\ DOMAIN build \subseteq DOMAIN build'
             /\ IF pc' = "export"
                THEN step' = step + 1 /\ err' = err
                ELSE /\ step' = 0
                     /\ err'.ok => step = Len(C10_Order)]_vars

\* C10: export failed at index: the static assets and the pages of the posts are
\* in the build directory, and neither index.html nor a tag page is.
C10_StoppedAtIndex ==
    /\ pc = "recv"
    /\ ~err.ok
    /\ err.kind = "Io"
    /\ STATIC_FILE \in DOMAIN build
    /\ posts # <<>>
    /\ \A i \in 1..Len(posts) : Dest(posts[i].path) \in DOMAIN build
    /\ DOMAIN tags # {}
    /\ INDEX_HTML \notin DOMAIN build
    /\ \A t \in DOMAIN tags : TagDest(t) \notin DOMAIN build

(***************************************************************************)
(* load: atomic replacement, the tag index, the order of the posts.        *)
(***************************************************************************)
\* A step of load (the edits of the tree are the steps that count an edit).
LoadSteps == edits' = edits

\* The elements of a sequence.
Range(seq) == { seq[i] : i \in 1..Len(seq) }

\* The posts of the qualifying files of a tree.
C6_PostsOf(tr) ==
    { [path |-> tr[i].path, datetime |-> tr[i].file.datetime,
       tags |-> tr[i].file.tags, hidden |-> tr[i].file.hidden] :
        i \in { k \in 1..Len(tr) : C5_Qualifies(tr[k]) } }

\* C6: a call of load on a tree whose qualifying files all parse replaces posts
\* and tags together: posts holds each post of the tree's qualifying files once and
\* nothing else, and tags holds, under exactly the tags of the posts that are not
\* hidden, each such post once; a call that fails (a malformed qualifying file, or
\* no posts directory) leaves posts and tags as they were; and no other step
\* changes either.
C6_AtomicReplacement ==
    [][IF ~LoadSteps THEN UNCHANGED <<posts, tags>>
       ELSE IF "posts" \in dirs /\ C5_Malformed = {}
       THEN /\ err'.ok
            /\ Range(posts') = C6_PostsOf(tree)
            /\ Len(posts') = Cardinality(C6_PostsOf(tree))
            /\ DOMAIN tags' =
                  { t \in TagNames : \E p \in C6_PostsOf(tree) :
                        ~p.hidden /\ t \in Range(p.tags) }
            /\ \A t \in DOMAIN tags' :
                  /\ Range(tags'[t]) =
                        { p \in C6_PostsOf(tree) : ~p.hidden /\ t \in Range(p.tags) }
                  /\ Len(tags'[t]) = Cardinality(Range(tags'[t]))
       ELSE /\ ~err'.ok
            /\ UNCHANGED <<posts, tags>>]_vars

\* C6: a load has failed on a malformed file added by an edit, and posts and tags
\* still hold what the load before the edit gave them.
C6_FailedLoadKeepsBoth ==
    /\ edits = 1
    /\ ~err.ok
    /\ ~err.panic
    /\ C5_Malformed # {}
    /\ Len(posts) = MaxLoadFiles - 1
    /\ Len(tree) = MaxLoadFiles
    /\ DOMAIN tags = TagNames

\* How often x occurs in a sequence.
C7_Count(seq, x) == Cardinality({ j \in 1..Len(seq) : seq[j] = x })

\* The tag index against the post collection.
C7_Index ==
    /\ \A i \in 1..Len(posts) : ~posts[i].hidden =>
          \A k \in 1..Len(posts[i].tags) :
              /\ posts[i].tags[k] \in DOMAIN tags
              /\ C7_Count(tags[posts[i].tags[k]], posts[i]) = 1
    /\ \A t \in DOMAIN tags :
          /\ Len(tags[t]) >= 1
          /\ \A j \in 1..Len(tags[t]) :
                /\ ~tags[t][j].hidden
                /\ t \in Range(tags[t][j].tags)
                /\ tags[t][j] \in Range(posts)

\* C7: whatever the edits of the tree between the loads, every post of the
\* collection that is not hidden is exactly once in the index sequence of each of
\* its tags; every tag of the index has at least one post, none of them hidden and
\* each a member of the collection; and after a load that succeeds every post the
\* index refers to is a file of the tree as it is now, with the date and tags it
\* has now.
C7_TagIndexConsistent ==
    /\ []C7_Index
    /\ [][(LoadSteps /\ err'.ok) =>
             \A t \in DOMAIN tags' : \A j \in 1..Len(tags'[t]) :
                 \E i \in 1..Len(tree) :
                     /\ tree[i].path = tags'[t][j].path
                     /\ tree[i].file.kind = "file"
                     /\ tree[i].file.parse = "ok"
                     /\ tree[i].file.datetime = tags'[t][j].datetime
                     /\ tree[i].file.tags = tags'[t][j].tags]_vars

\* C7: a load succeeded after an edit added a file: three posts, one of them hidden
\* and tagged, one with two tags, and both tags in the index.
C7_IndexAfterEdit ==
    /\ err.ok
    /\ edits = 1
    /\ Len(posts) = MaxLoadFiles
    /\ \E i \in 1..Len(posts) : posts[i].hidden /\ posts[i].tags # <<>>
    /\ \E i \in 1..Len(posts) : ~posts[i].hidden /\ Len(posts[i].tags) = 2
    /\ DOMAIN tags = TagNames
    /\ \E t \in DOMAIN tags : Len(tags[t]) = 2

\* Newest first.
C8_Sorted(seq) ==
    \A i, j \in 1..Len(seq) : i < j => seq[i].datetime >= seq[j].datetime

\* Where the walk of a tree meets a path.
C8_WalkIndex(tr, path) == CHOOSE i \in 1..Len(tr) : tr[i].path = path

\* Posts of the same datetime are in the order the walk met them.
C8_Stable(seq, tr) ==
    \A i, j \in 1..Len(seq) :
        (i < j /\ seq[i].datetime = seq[j].datetime)
            => C8_WalkIndex(tr, seq[i].path) < C8_WalkIndex(tr, seq[j].path)

\* C8: the post collection and every sequence of the tag index are sorted by
\* datetime, newest first, and a load that succeeds leaves posts of equal datetime
\* in the order in which the walk of the tree met them.
C8_NewestFirstStable ==
    /\ [](C8_Sorted(posts) /\ \A t \in DOMAIN tags : C8_Sorted(tags[t]))
    /\ [][(LoadSteps /\ err'.ok) =>
             /\ C8_Stable(posts', tree)
             /\ \A t \in DOMAIN tags' : C8_Stable(tags'[t], tree)]_vars

\* C8: three posts loaded, the newest met last by the walk and now first, the two
\* others of one datetime and in walk order, which is not the order of their names.
C8_TieKeepsWalkOrder ==
    /\ err.ok
    /\ Len(posts) = 3
    /\ Len(tree) = 3
    /\ posts[1].path = tree[3].path
    /\ posts[2].path = tree[1].path
    /\ posts[3].path = tree[2].path
    /\ posts[1].datetime > posts[2].datetime
    /\ posts[2].datetime = posts[3].datetime
    /\ tree[1].path = <<POSTS, B_MD>>
    /\ tree[2].path = <<POSTS, A_MD>>
    /\ \E t \in DOMAIN tags : tags[t] = posts

(***************************************************************************)
(* The pages: listings, and the tags of a post's page.                     *)
(***************************************************************************)
\* The posts of a sequence that are not hidden, in its order.
C11_Visible(ps) == SelectSeq(ps, LAMBDA p : ~p.hidden)

\* The pages a sequence of posts is listed as.
C11_Urls(ps) == [i \in 1..Len(C11_Visible(ps)) |-> Dest(C11_Visible(ps)[i].path)]

\* The pages a written listing page lists, in its order.
C11_Listed(page) == [i \in 1..Len(page.posts) |-> page.posts[i].url]

\* C11: export_index writes index.html listing exactly the posts of the collection
\* that are not hidden, in collection order; export_tags writes the page of each
\* tag of the index and of no other tag, each listing exactly the posts of its
\* index sequence in that order.
C11_ListingPages ==
    [][/\ C9_Done("index") =>
             /\ INDEX_HTML \in DOMAIN build'
             /\ build'[INDEX_HTML].tpl = "index.tpl"
             /\ C11_Listed(build'[INDEX_HTML]) = C11_Urls(posts)
       /\ C9_Done("tags") =>
             /\ \A t \in DOMAIN tags :
                   /\ TagDest(t) \in DOMAIN build'
                   /\ build'[TagDest(t)].tpl = "tag.tpl"
                   /\ build'[TagDest(t)].name = t
                   /\ C11_Listed(build'[TagDest(t)]) =
                         [i \in 1..Len(tags[t]) |-> Dest(tags[t][i].path)]
             /\ \A t \in TagNames \ DOMAIN tags : TagDest(t) \notin Changed]_vars

\* C11: the two-post scenario built: b.md (newer, tags y and x) and a.md (tag x)
\* give index = [b, a], the page of x = [b, a] and the page of y = [b].
C11_TwoPostScenario ==
    /\ good = build
    /\ Len(posts) = 2
    /\ posts[1].path = <<POSTS, B_MD>> /\ posts[1].tags = <<"y", "x">>
    /\ posts[2].path = <<POSTS, A_MD>> /\ posts[2].tags = <<"x">>
    /\ posts[1].datetime > posts[2].datetime
    /\ INDEX_HTML \in DOMAIN build
    /\ C11_Listed(build[INDEX_HTML]) = << Dest(<<POSTS, B_MD>>), Dest(<<POSTS, A_MD>>) >>
    /\ TagDest("x") \in DOMAIN build
    /\ C11_Listed(build[TagDest("x")]) = << Dest(<<POSTS, B_MD>>), Dest(<<POSTS, A_MD>>) >>
    /\ TagDest("y") \in DOMAIN build
    /\ C11_Listed(build[TagDest("y")]) = << Dest(<<POSTS, B_MD>>) >>

\* Posts and tag indexes to render a post against, consistent or not.
C12_Posts ==
    { [path |-> <<POSTS, A_MD>>, datetime |-> 1, tags |-> ts, hidden |-> h] :
        ts \in TagLists, h \in BOOLEAN }

C12_Indexes(post) == { [t \in S |-> <<post>>] : S \in SUBSET TagNames }

\* export_posts of one post fails exactly when the post is not hidden and one of its
\* tags is not a key of the index.
C12_FailsOnAbsentTag ==
    \A post \in C12_Posts : \A tg \in C12_Indexes(post) :
        LET r == export_posts(<<post>>, tg, EmptyMap, NoFail) IN
        r.ok <=> (post.hidden \/ \A k \in 1..Len(post.tags) : post.tags[k] \in DOMAIN tg)

\* C12: rendering a post fails exactly for a post that is not hidden and has a tag
\* the index lacks; in every state the program reaches each tag of each post that
\* is not hidden is a key of the index, and no export ever ends with the missing-tag
\* failure; the page of a post that is not hidden carries its datetime and one
\* entry per tag with the number of posts of that tag, the page of a hidden post no
\* datetime and no tag.
C12_TagsResolve ==
    /\ [](/\ C12_FailsOnAbsentTag
          /\ \A i \in 1..Len(posts) : ~posts[i].hidden =>
                \A k \in 1..Len(posts[i].tags) : posts[i].tags[k] \in DOMAIN tags
          /\ ~err.ok => err.kind # "post tag does not add to blog tags")
    /\ [][C9_Done("posts") =>
             \A i \in 1..Len(posts) :
                 LET page == build'[Dest(posts[i].path)] IN
                 IF posts[i].hidden
                 THEN page.datetime = None /\ page.post_tags = <<>>
                 ELSE /\ page.datetime = Some(posts[i].datetime)
                      /\ Len(page.post_tags) = Len(posts[i].tags)
                      /\ \A k \in 1..Len(posts[i].tags) :
                            /\ page.post_tags[k].name = posts[i].tags[k]
                            /\ page.post_tags[k].num = Len(tags[posts[i].tags[k]])]_vars

\* C12: a build completed with a hidden post whose tag is not a key of the index:
\* its page is written, without a datetime and without a tag.
C12_HiddenTagNotIndexed ==
    /\ good = build
    /\ last_run.some
    /\ \E i \in 1..Len(posts) :
          /\ posts[i].hidden
          /\ posts[i].tags = <<"x">>
          /\ "x" \notin DOMAIN tags
          /\ Dest(posts[i].path) \in DOMAIN build
          /\ build[Dest(posts[i].path)].tpl = "post.tpl"
          /\ build[Dest(posts[i].path)].datetime = None
          /\ build[Dest(posts[i].path)].post_tags = <<>>

(***************************************************************************)
(* The watch loop: termination, serialized rebuilds, last_run, dropped     *)
(* events, renames.                                                        *)
(***************************************************************************)
\* C13: once watch has entered its loop the loop never ends: from then on every
\* step leaves the main thread receiving, loading or exporting for the loop, a
\* receive error included, and watch never returns.
C13_LoopNeverTerminates ==
    [][caller = "watch" => (caller' = "watch" /\ pc' \in {"recv", "load", "export"})]_vars

(***************************************************************************)
(* Idempotence of load and of the export operations.                       *)
(***************************************************************************)
\* posts and tags are what a load of the tree as it is gives: the posts of its
\* qualifying files, each once, newest first and ties in walk order, and the index
\* of those that are not hidden.
C14_IsLoadOfTree ==
    /\ err.ok
    /\ "posts" \in dirs
    /\ C5_Malformed = {}
    /\ Range(posts) = C6_PostsOf(tree)
    /\ Len(posts) = Cardinality(C6_PostsOf(tree))
    /\ C8_Sorted(posts)
    /\ C8_Stable(posts, tree)
    /\ DOMAIN tags =
          { t \in TagNames : \E p \in C6_PostsOf(tree) : ~p.hidden /\ t \in Range(p.tags) }
    /\ \A t \in DOMAIN tags :
          /\ Range(tags[t]) = { p \in C6_PostsOf(tree) : ~p.hidden /\ t \in Range(p.tags) }
          /\ Len(tags[t]) = Cardinality(Range(tags[t]))
          /\ C8_Sorted(tags[t])
          /\ C8_Stable(tags[t], tree)

\* C14: a load of a tree that has not changed since posts and tags were loaded from
\* it succeeds and leaves posts and tags as they are: the same posts in the same
\* order, the same keys, the same sequences.
C14_LoadIdempotent ==
    [][(LoadSteps /\ C14_IsLoadOfTree) => (err'.ok /\ UNCHANGED <<posts, tags>>)]_vars

\* C14: three posts and both tags loaded from the tree, and load can be called again.
C14_LoadedAndCallable ==
    /\ C14_IsLoadOfTree
    /\ pc = "main"
    /\ Len(posts) = MaxLoadFiles
    /\ DOMAIN tags = TagNames
    /\ \E i, j \in 1..Len(posts) : i # j /\ posts[i].datetime = posts[j].datetime

\* A run, without a failing write, of one sub-operation on a build directory b and
\* the loaded state and sources as they are.
C15_Run(name, b) ==
    CASE name = "media" -> export_media(dirs, media, b, NoFail)
      [] name = "static" -> export_static(b, NoFail)
      [] name = "posts" -> export_posts(posts, tags, b, NoFail)
      [] name = "index" -> export_index(posts, tags, b, NoFail)
      [] name = "tags" -> export_tags(tags, b, NoFail)

\* A run of the full export from its i-th sub-operation on.
RECURSIVE C15_FullFrom(_, _)
C15_FullFrom(i, b) ==
    IF i > Len(C10_Order) THEN [ok |-> TRUE, build |-> b]
    ELSE LET r == C15_Run(C10_Order[i], b) IN
         IF r.ok THEN C15_FullFrom(i + 1, r.build) ELSE [ok |-> FALSE, build |-> r.build]

\* C15: in every state, whichever sub-operations were called before and in whatever
\* order, a run of a sub-operation that succeeds leaves a build directory that a
\* second run of it (loaded state and sources unchanged) succeeds on and leaves
\* exactly as it is, and so does a run of the full export; and a call that succeeds
\* on its own changes the build directory to what one sub-operation's run gives.
C15_ExportIdempotent ==
    /\ [](/\ \A i \in 1..Len(C10_Order) :
                LET first == C15_Run(C10_Order[i], build) IN
                first.ok => LET second == C15_Run(C10_Order[i], first.build) IN
                            second.ok /\ second.build = first.build
          /\ LET first == C15_FullFrom(1, build) IN
             first.ok => LET second == C15_FullFrom(1, first.build) IN
                         second.ok /\ second.build = first.build)
    /\ [][(pc = "main" /\ pc' = "main" /\ err'.ok /\ build' # build) =>
             \E i \in 1..Len(C10_Order) : build' = C15_Run(C10_Order[i], build).build]_vars

\* C15: export_index was called on its own on two loaded posts: index.html is the
\* only file of the build directory, and a second call leaves it as it is.
C15_IndexOnItsOwn ==
    /\ pc = "main"
    /\ err.ok
    /\ Len(posts) = 2
    /\ DOMAIN build = { INDEX_HTML }
    /\ build[INDEX_HTML].tpl = "index.tpl"
    /\ C15_Run("index", build).build = build

(***************************************************************************)
(* The watch loop, continued.                                              *)
(***************************************************************************)
\* C16: an event is taken from the channel only while no rebuild is in progress;
\* a rebuild starts only from the receive; a load in progress goes on to its export
\* or back to the receive and an export in progress goes on step by step or back to
\* the receive, neither ever back to a load; posts and tags change only in the load
\* and the build directory only in the export of the one rebuild in progress.
C16_RebuildsSerialized ==
    [][/\ (chan # <<>> /\ chan' = Tail(chan)) => (pc = "recv" /\ step = 0)
       /\ (pc' = "load" /\ pc # "load") => pc = "recv"
       /\ pc = "load" => pc' \in {"load", "export", "recv", "panicked"}
       /\ (pc = "load" /\ pc' = "export") => step' = 1
       /\ pc = "export" => (pc' \in {"export", "recv", "panicked"} /\ step \in 1..5)
       /\ (pc = "export" /\ pc' = "export") => step' \in {step, step + 1}
       /\ (posts' # posts \/ tags' # tags) => pc = "load"
       /\ build' # build => pc = "export"]_vars

\* C16: an event that would be accepted waits in the channel while the third step
\* of the export of a rebuild is due.
C16_EventWaitsForRebuild ==
    /\ caller = "watch"
    /\ pc = "export"
    /\ step = 3
    /\ posts # <<>>
    /\ chan # <<>>
    /\ Head(chan) = Event("Write", VISIBLE_PATH)
    /\ now - last_run.val >= rebuild_interval

\* Whether the loop accepts an event it receives now.
C17_Accepted(event) ==
    /\ event.kind \in C2_Kinds
    /\ ~C2_Matches(event.path)
    /\ ~(last_run.some /\ now - last_run.val < rebuild_interval)

\* The errors a rebuild ends with.
C17_RebuildErrors == {"Io", "PostHead", "PostNoBody"}

\* C17: the step that accepts an event sets last_run to the time of that step and
\* goes to load, which has not run yet; a step that discards an event leaves
\* last_run unchanged; no other step changes last_run, so neither does a load or an
\* export, failing or not; with last_run unset the first event of the four kinds
\* that matches no ignore pattern is accepted; and an event received less than
\* rebuild_interval after last_run is dropped, also after a failed rebuild.
C17_LastRunBookkeeping ==
    [][/\ Receives =>
             LET event == Head(chan) IN
             /\ IF C17_Accepted(event)
                THEN last_run' = Some(now) /\ pc' = "load" /\ UNCHANGED <<posts, tags, build>>
                ELSE UNCHANGED last_run /\ pc' = "recv"
             /\ (~last_run.some /\ event.kind \in C2_Kinds /\ ~C2_Matches(event.path))
                   => pc' = "load"
             /\ (last_run.some /\ now - last_run.val < rebuild_interval)
                   => (pc' = "recv" /\ UNCHANGED <<last_run, posts, tags, build, err>>)
       /\ ~Receives => UNCHANGED last_run]_vars

\* C17: a rebuild failed, and an event that matches no ignore pattern is about to
\* be received within the interval after the event that triggered it.
C17_EventAfterFailedRebuild ==
    /\ pc = "recv"
    /\ ~err.ok
    /\ err.kind \in C17_RebuildErrors
    /\ last_run.some
    /\ now > last_run.val
    /\ now - last_run.val < rebuild_interval
    /\ chan # <<>>
    /\ Head(chan) = Event("Write", VISIBLE_PATH)

\* C18: a rebuild starts only at the step that receives an event and accepts it,
\* so no more rebuilds start than events are accepted; a step that drops an event
\* changes nothing but the channel, so nothing is left to run for it later; and
\* with the channel empty the loop changes nothing, whatever time passes: the
\* build output stays as it is, out of date or not.
C18_DroppedNotQueued ==
    [][/\ (pc' = "load" /\ pc # "load") => (Receives /\ C17_Accepted(Head(chan)))
       /\ (Receives /\ ~C17_Accepted(Head(chan))) =>
             UNCHANGED <<dirs, tree, media, posts, tags, build, good, now, last_run, pc,
                         step, caller, err, edits>>
       /\ (pc = "recv" /\ chan = <<>>) =>
             UNCHANGED <<posts, tags, build, good, last_run, pc, step, err>>]_vars

\* C18: the tree was edited after the last rebuild, the channel is empty, the
\* interval has passed: the posts built are not those of the tree.
C18_StaleAndIdle ==
    /\ caller = "watch"
    /\ pc = "recv"
    /\ chan = <<>>
    /\ edits = 1
    /\ last_run.some
    /\ now - last_run.val >= rebuild_interval
    /\ good = build
    /\ INDEX_HTML \in DOMAIN build
    /\ C5_Malformed = {}
    /\ Range(posts) # C6_PostsOf(tree)

\* C20: what the loop does with a Rename event depends on its old path alone: if
\* the old path matches an ignore pattern the event is discarded, and if not it is
\* accepted unless throttled, wherever the new path lies.
C20_RenameOldPathOnly ==
    [][(Receives /\ Head(chan).kind = "Rename") =>
          LET event == Head(chan) IN
          IF C2_Matches(event.path)
          THEN pc' = "recv" /\ UNCHANGED <<last_run, posts, tags, build>>
          ELSE IF last_run.some /\ now - last_run.val < rebuild_interval
          THEN pc' = "recv" /\ UNCHANGED <<last_run, posts, tags, build>>
          ELSE pc' = "load" /\ last_run' = Some(now)]_vars

\* C20: the loop is about to receive, with the throttle open, the rename of a
\* dotfile to the path of a post; the rename of a post into the build directory
\* is among the events it may receive as well.
C20_RenameFromDotfile ==
    /\ pc = "recv"
    /\ chan # <<>>
    /\ Head(chan) = Rename(DOTFILE_PATH, VISIBLE_PATH)
    /\ Rename(VISIBLE_PATH, BUILT_PATH) \in Events
    /\ last_run.some
    /\ now - last_run.val >= rebuild_interval
    /\ INDEX_HTML \in DOMAIN build

C21_OwnPath(path) ==
    /\ Len(path) >= Len(build_dir)
    /\ \A i \in 1..Len(build_dir) : path[i] = build_dir[i]

\* C21: no event of a rebuild's own creating and writing in the build directory
\* starts a rebuild: the loop discards each of them and stays at the receive, so
\* that only a change of the source starts a rebuild.
C21_NoSelfTriggering ==
    [][(Receives /\ C21_OwnPath(Head(chan).path)) =>
          (pc' = "recv" /\ UNCHANGED <<last_run, posts, tags, build>>)]_vars

(***************************************************************************)
(* What export leaves of earlier builds.                                   *)
(***************************************************************************)
\* The files the export of the loaded state writes.
C22_Current ==
    { <<n>> : n \in DOMAIN media } \cup { STATIC_FILE, INDEX_HTML }
    \cup { Dest(posts[i].path) : i \in 1..Len(posts) }
    \cup { TagDest(t) : t \in DOMAIN tags }

\* An export that returns Ok.
C22_Completes == pc = "export" /\ step = Len(C10_Order) /\ pc' # "export" /\ err'.ok

\* C22: no step removes a file from the build directory; a file that is not one the
\* export of the loaded state writes (the page of a post or of a tag that is gone
\* from the source) stays with the content it had; and when an export returns Ok
\* the page of each loaded post, the index and the page of each tag have the
\* content rendered from the loaded state.
C22_ExportNeverRemoves ==
    [][/\ DOMAIN build \subseteq DOMAIN build'
       /\ \A p \in DOMAIN build \ C22_Current : build'[p] = build[p]
       /\ C22_Completes =>
             /\ \A i \in 1..Len(posts) :
                   /\ Dest(posts[i].path) \in DOMAIN build'
                   /\ build'[Dest(posts[i].path)] = render_post(tags, posts[i])
             /\ INDEX_HTML \in DOMAIN build'
             /\ build'[INDEX_HTML] = render_index(posts, tags)
             /\ \A t \in DOMAIN tags :
                   /\ TagDest(t) \in DOMAIN build'
                   /\ build'[TagDest(t)] = render_tag(tags, t)]_vars

\* C22: a post and the tag only it had are gone from the source and the rebuild
\* that followed has completed: the page of the post and the page of the tag are
\* still in the build directory, beside the index written without them.
C22_StalePagesKept ==
    /\ caller = "watch"
    /\ pc = "recv"
    /\ err.ok
    /\ last_run.some
    /\ good = build
    /\ "y" \notin DOMAIN tags
    /\ TagDest("y") \in DOMAIN build
    /\ build[TagDest("y")].tpl = "tag.tpl"
    /\ \E path \in QualifyingPaths :
          /\ \A i \in 1..Len(posts) : posts[i].path # path
          /\ path \notin PathsOf(tree)
          /\ Dest(path) \in DOMAIN build
          /\ build[Dest(path)].tpl = "post.tpl"
    /\ build[INDEX_HTML] = render_index(posts, tags)

====
